---------------------------- MODULE Spec2Model ----------------------------
(***************************************************************************)
(* A model of beefchimi/beefskills' documentation tool-chain:              *)
(*   scripts/audit_fancy_quotes.py   (quote scanner and rewriter)          *)
(*   plugins/frontend-react/skills/frontend-react/build_agents.py          *)
(*                                   (document assembler)                  *)
(*   scripts/bump_plugin_version.py  (version bump)                        *)
(* Documents are sequences of one-character strings; offsets are 0-based   *)
(* as in the Python source, so the character at offset i of s is s[i + 1]. *)
(***************************************************************************)
EXTENDS Integers, Sequences, FiniteSets, TLC

VARIABLES content,              \* the document handed to the functions
          skip_avoid_examples,  \* fix_prose_quotes' flag
          pc,                   \* the position of the caller
          new_content,          \* fix_prose_quotes(content, flag)
          again,                \* fix_prose_quotes(new_content, flag)
          scan,                 \* audit_file's locals: prose, straight, fancy_in_code
          r,                    \* audit_file's result
          mode,                 \* main: "fix" when --fix is in sys.argv, else "audit"
          md_files,             \* main: the sorted list of .md paths
          disk,                 \* the files: path -> [text, status]
          disk0,                \* the files as main found them
          idx,                  \* main: the position of "for path in md_files"
          violations,           \* main: the (rel, r) pairs collected by the audit loop
          fixed_count,          \* main: the files rewritten by the fix loop
          stderr,               \* the paths reported on sys.stderr
          exit_status,          \* the status the process ends with
          rules_dir,            \* build_agents: file name -> text, the files of RULES_DIR
          by_prefix,            \* build_agents.main: prefix -> sorted list of file names
          out,                  \* build_agents.main: the list of output lines
          sec_num,              \* build_agents.main: the position in SECTION_ORDER
          agents_md,            \* build_agents: what OUTPUT holds
          parsed,               \* strip_frontmatter(content)
          argv,                 \* bump_plugin_version: sys.argv[1:]
          plugin_json,          \* bump_plugin_version: plugin name -> its plugin.json
          marketplace_json,     \* bump_plugin_version: the marketplace.json
          extractor,            \* get_prose_content's locals while it loops over the lines
          classifier            \* prose_offset_set's locals while it loops over the lines

fnvars == <<content, skip_avoid_examples, new_content, again, scan, r>>
mainvars == <<mode, md_files, disk, disk0, idx, violations, fixed_count, stderr, exit_status>>
trackvars == <<extractor, classifier>>
toolvars == <<rules_dir, by_prefix, out, sec_num, agents_md, parsed,
              argv, plugin_json, marketplace_json, extractor, classifier>>
vars == <<content, skip_avoid_examples, pc, new_content, again, scan, r,
          mode, md_files, disk, disk0, idx, violations, fixed_count, stderr, exit_status,
          rules_dir, by_prefix, out, sec_num, agents_md, parsed,
          argv, plugin_json, marketplace_json, extractor, classifier>>

(***************************************************************************)
(* Characters.                                                             *)
(***************************************************************************)
STRAIGHT_DOUBLE == "\""
STRAIGHT_APOSTROPHE == "'"
FANCY_OPEN_DOUBLE == "U+201C"
FANCY_CLOSE_DOUBLE == "U+201D"
FANCY_APOSTROPHE == "U+2019"
BACKTICK == "BACKTICK"
NEWLINE == "\n"

\* str.isspace / the regex class \s, on the characters documents are drawn from
IsSpace(c) == c = " "

(***************************************************************************)
(* Python string built-ins, on sequences of characters.                    *)
(***************************************************************************)
\* s[a:b] with 0 <= a, b
Slice(s, a, b) ==
    LET hi == IF b < Len(s) THEN b ELSE Len(s)
    IN  IF a >= hi THEN <<>> ELSE [k \in 1..(hi - a) |-> s[a + k]]

\* s.find(c, i): the least offset >= i holding c, or -1
Find(s, c, i) ==
    LET hits == {k \in i..(Len(s) - 1) : s[k + 1] = c}
    IN  IF hits = {} THEN -1 ELSE CHOOSE k \in hits : \A m \in hits : k <= m

\* s.rfind(c, 0, i): the greatest offset < i holding c, or -1
RFind(s, c, i) ==
    LET hits == {k \in 0..(i - 1) : k < Len(s) /\ s[k + 1] = c}
    IN  IF hits = {} THEN -1 ELSE CHOOSE k \in hits : \A m \in hits : k >= m

\* s.startswith(p)
StartsWith(s, p) == Len(p) <= Len(s) /\ \A k \in 1..Len(p) : s[k] = p[k]

\* p in s
Contains(s, p) ==
    \E a \in 0..(Len(s) - Len(p)) : \A k \in 1..Len(p) : s[a + k] = p[k]

\* s.lstrip() and s.strip()
RECURSIVE LStrip(_)
LStrip(s) == IF s # <<>> /\ IsSpace(Head(s)) THEN LStrip(Tail(s)) ELSE s

RECURSIVE RStrip(_)
RStrip(s) ==
    IF s # <<>> /\ IsSpace(s[Len(s)]) THEN RStrip(SubSeq(s, 1, Len(s) - 1)) ELSE s

Strip(s) == RStrip(LStrip(s))

\* content.split("\n"): always at least one line
RECURSIVE Split(_)
Split(s) ==
    LET p == Find(s, NEWLINE, 0)
    IN  IF p = -1 THEN <<s>>
        ELSE <<Slice(s, 0, p)>> \o Split(Slice(s, p + 1, Len(s)))

\* "\n".join(lines)
RECURSIVE Join(_)
Join(lines) ==
    IF lines = <<>> THEN <<>>
    ELSE IF Len(lines) = 1 THEN lines[1]
    ELSE lines[1] \o <<NEWLINE>> \o Join(Tail(lines))

\* the run of backticks of s that starts at offset j (the while loops that count a run)
RECURSIVE BacktickRun(_, _)
BacktickRun(s, j) ==
    IF j < Len(s) /\ s[j + 1] = BACKTICK THEN 1 + BacktickRun(s, j + 1) ELSE 0

(***************************************************************************)
(* The fence tests shared by get_prose_content, find_fancy_in_code and     *)
(* prose_offset_set.                                                       *)
(***************************************************************************)
\* re.match(r"^\s*```", line)
OpensFence(line) == BacktickRun(LStrip(line), 0) >= 3

\* FenceOf that takes three backticks whatever the length of the run
FenceOfThree(line) == <<BACKTICK, BACKTICK, BACKTICK>>

\* re.match(r"^\s*(`+)", line).group(1)
FenceOf(line) == [k \in 1..BacktickRun(LStrip(line), 0) |-> BACKTICK]

\* ClosesFence that wants the closing line to be the fence and nothing else
ClosesFenceExactly(line, fence) == Strip(line) = fence

\* line.strip().startswith(fence) and len(line.strip()) >= len(fence)
ClosesFence(line, fence) ==
    StartsWith(Strip(line), fence) /\ Len(Strip(line)) >= Len(fence)

(***************************************************************************)
(* prose_offset_set                                                        *)
(***************************************************************************)
\* the inner "Skip to closing backticks" loop: the value of i it leaves
RECURSIVE LineSkipToClose(_, _, _)
LineSkipToClose(line, j, run) ==
    IF j > Len(line) THEN j
    ELSE IF j = Len(line) THEN Len(line)
    ELSE IF line[j + 1] = BACKTICK
         THEN LET r2 == BacktickRun(line, j)
                  k == j + r2
              IN  IF r2 >= run THEN k ELSE LineSkipToClose(line, k, run)
    ELSE LineSkipToClose(line, j + 1, run)

\* the "while i < len(line)" loop of a prose line: the offsets within the line it adds
RECURSIVE LineProseOffsets(_, _)
LineProseOffsets(line, i) ==
    IF i >= Len(line) THEN {}
    ELSE IF line[i + 1] = BACKTICK
         THEN LET run == BacktickRun(line, i)
              IN  LineProseOffsets(line, LineSkipToClose(line, i + run, run))
    ELSE {i} \cup LineProseOffsets(line, i + 1)

\* the "for line in lines" loop, from line n on, with the loop's pos, in_fence, fence
RECURSIVE ProseOffsetLoop(_, _, _, _, _)
ProseOffsetLoop(lines, n, pos, in_fence, fence) ==
    IF n > Len(lines) THEN {}
    ELSE LET line == lines[n]
             next == pos + Len(line) + 1
         IN  IF ~in_fence
             THEN IF OpensFence(line)
                  THEN ProseOffsetLoop(lines, n + 1, next, TRUE, FenceOf(line))
                  ELSE {pos + i : i \in LineProseOffsets(line, 0)}
                       \cup ProseOffsetLoop(lines, n + 1, next, FALSE, fence)
             ELSE IF ClosesFence(line, fence)
                  THEN ProseOffsetLoop(lines, n + 1, next, FALSE, fence)
                  ELSE ProseOffsetLoop(lines, n + 1, next, TRUE, fence)

prose_offset_set(c) == ProseOffsetLoop(Split(c), 1, 0, FALSE, <<>>)

(***************************************************************************)
(* fix_prose_quotes                                                        *)
(***************************************************************************)
\* line[:20]
AvoidWindow == 20

\* re.match(r"^[\s\-]*\*?Avoid\*?:", line)
RECURSIVE SkipSpaceDash(_)
SkipSpaceDash(s) ==
    IF s # <<>> /\ (IsSpace(Head(s)) \/ Head(s) = "-") THEN SkipSpaceDash(Tail(s)) ELSE s

OptStar(s) == IF s # <<>> /\ Head(s) = "*" THEN Tail(s) ELSE s

MatchesAvoid(line) ==
    LET a == OptStar(SkipSpaceDash(line))
    IN  /\ StartsWith(a, <<"A", "v", "o", "i", "d">>)
        /\ StartsWith(OptStar(Slice(a, 5, Len(a))), <<":">>)

\* the line around offset i, and the test that exempts it
LineAround(c, i) ==
    LET line_start == RFind(c, NEWLINE, i) + 1
        found == Find(c, NEWLINE, i)
        line_end == IF found = -1 THEN Len(c) ELSE found
    IN  Slice(c, line_start, line_end)

IsAvoidLine(c, i) ==
    LET line == LineAround(c, i)
    IN  \/ MatchesAvoid(line)
        \/ Contains(Slice(line, 0, AvoidWindow), <<"-", " ", "A", "v", "o", "i", "d", ":">>)

\* DoubleGlyph with the close glyph mistyped as the straight double-quote
DoubleGlyphStraightClose(double_quote_count) ==
    IF double_quote_count % 2 = 0 THEN STRAIGHT_DOUBLE ELSE FANCY_OPEN_DOUBLE

\* DoubleGlyph with the parity test inverted
DoubleGlyphCloseFirst(double_quote_count) ==
    IF double_quote_count % 2 = 0 THEN FANCY_OPEN_DOUBLE ELSE FANCY_CLOSE_DOUBLE

\* FANCY_CLOSE_DOUBLE if double_quote_count % 2 == 0 else FANCY_OPEN_DOUBLE
DoubleGlyph(double_quote_count) ==
    IF double_quote_count % 2 = 0 THEN FANCY_CLOSE_DOUBLE ELSE FANCY_OPEN_DOUBLE

\* the "while i < len(content)" loop from offset i on: the characters it appends
RECURSIVE FixLoop(_, _, _, _, _)
FixLoop(c, prose, skip, i, double_quote_count) ==
    IF i >= Len(c) THEN <<>>
    ELSE IF i \notin prose
         THEN <<c[i + 1]>> \o FixLoop(c, prose, skip, i + 1, double_quote_count)
    ELSE IF c[i + 1] = STRAIGHT_DOUBLE
         THEN IF skip /\ IsAvoidLine(c, i)
              THEN <<c[i + 1]>> \o FixLoop(c, prose, skip, i + 1, double_quote_count)
              ELSE <<DoubleGlyph(double_quote_count + 1)>>
                   \o FixLoop(c, prose, skip, i + 1, double_quote_count + 1)
    ELSE IF c[i + 1] = STRAIGHT_APOSTROPHE
         THEN IF skip /\ IsAvoidLine(c, i)
              THEN <<c[i + 1]>> \o FixLoop(c, prose, skip, i + 1, double_quote_count)
              ELSE <<FANCY_APOSTROPHE>>
                   \o FixLoop(c, prose, skip, i + 1, double_quote_count)
    ELSE <<c[i + 1]>> \o FixLoop(c, prose, skip, i + 1, double_quote_count)

\* fix_prose_quotes that loses the document's final newline
FixDroppingFinalNewline(c, skip) ==
    LET fixed == FixLoop(c, prose_offset_set(c), skip, 0, 0)
    IN  IF fixed # <<>> /\ fixed[Len(fixed)] = NEWLINE
        THEN SubSeq(fixed, 1, Len(fixed) - 1) ELSE fixed

\* fix_prose_quotes that takes every offset for prose
FixEverywhere(c, skip) == FixLoop(c, 0..(Len(c) - 1), skip, 0, 0)

fix_prose_quotes(c, skip) == FixLoop(c, prose_offset_set(c), skip, 0, 0)


(***************************************************************************)
(* get_prose_content                                                       *)
(***************************************************************************)
\* the "for line in lines" loop from line n on: the lines it appends to out
RECURSIVE ProseContentLoop(_, _, _, _)
ProseContentLoop(lines, n, in_fence, fence_char) ==
    IF n > Len(lines) THEN <<>>
    ELSE LET line == lines[n]
         IN  IF ~in_fence
             THEN IF OpensFence(line)
                  THEN <<<<>>>> \o ProseContentLoop(lines, n + 1, TRUE, FenceOf(line))
                  ELSE <<line>> \o ProseContentLoop(lines, n + 1, FALSE, fence_char)
             ELSE IF ClosesFence(line, fence_char)
                  THEN <<<<>>>> \o ProseContentLoop(lines, n + 1, FALSE, <<>>)
                  ELSE <<<<>>>> \o ProseContentLoop(lines, n + 1, TRUE, fence_char)

get_prose_content(c) == Join(ProseContentLoop(Split(c), 1, FALSE, <<>>))

(***************************************************************************)
(* iter_prose_offsets and find_straight_quotes_in_prose                    *)
(***************************************************************************)
\* IterSkipToClose that goes back to the end of the opening run when nothing closes it
RECURSIVE IterSkipReverting(_, _, _, _)
IterSkipReverting(prose, j, backtick_run, start) ==
    IF j >= Len(prose) THEN start
    ELSE IF prose[j + 1] = BACKTICK
         THEN LET run == BacktickRun(prose, j)
                  k == j + run
              IN  IF run >= backtick_run THEN k
                  ELSE IterSkipReverting(prose, k, backtick_run, start)
    ELSE IterSkipReverting(prose, j + 1, backtick_run, start)

\* the inner "while j <= len(prose)" loop with its else clause: the value of i it leaves
RECURSIVE IterSkipToClose(_, _, _, _)
IterSkipToClose(prose, j, backtick_run, start) ==
    IF j > Len(prose) THEN start
    ELSE IF j = Len(prose) THEN j
    ELSE IF prose[j + 1] = BACKTICK
         THEN LET run == BacktickRun(prose, j)
                  k == j + run
              IN  IF run >= backtick_run THEN k
                  ELSE IterSkipToClose(prose, k, backtick_run, start)
    ELSE IterSkipToClose(prose, j + 1, backtick_run, start)

\* the "while i < len(prose)" loop from offset i on: the (offset, char) pairs it yields
RECURSIVE IterProseLoop(_, _)
IterProseLoop(prose, i) ==
    IF i >= Len(prose) THEN <<>>
    ELSE IF prose[i + 1] = BACKTICK
         THEN LET backtick_run == BacktickRun(prose, i)
                  start == i + backtick_run
              IN  IterProseLoop(prose, IterSkipToClose(prose, start, backtick_run, start))
    ELSE <<<<i, prose[i + 1]>>>> \o IterProseLoop(prose, i + 1)

iter_prose_offsets(prose) == IterProseLoop(prose, 0)

IsStraightPair(p) == p[2] \in {STRAIGHT_DOUBLE, STRAIGHT_APOSTROPHE}

find_straight_quotes_in_prose(prose) == SelectSeq(iter_prose_offsets(prose), IsStraightPair)

(***************************************************************************)
(* find_fancy_in_code                                                      *)
(***************************************************************************)
IsFancy(c) == c \in {FANCY_OPEN_DOUBLE, FANCY_CLOSE_DOUBLE, FANCY_APOSTROPHE}

\* "for j, c in enumerate(line)" from j on: the issues it appends
RECURSIVE LineFancyIssues(_, _, _)
LineFancyIssues(line, pos, j) ==
    IF j >= Len(line) THEN <<>>
    ELSE IF IsFancy(line[j + 1])
         THEN <<<<pos + j, line[j + 1]>>>> \o LineFancyIssues(line, pos, j + 1)
    ELSE LineFancyIssues(line, pos, j + 1)

\* the "for line in lines" loop from line n on: the issues it appends
RECURSIVE FancyLoop(_, _, _, _, _)
FancyLoop(lines, n, pos, in_fence, fence) ==
    IF n > Len(lines) THEN <<>>
    ELSE LET line == lines[n]
             next == pos + Len(line) + 1
         IN  IF ~in_fence
             THEN IF OpensFence(line)
                  THEN FancyLoop(lines, n + 1, next, TRUE, FenceOf(line))
                  ELSE FancyLoop(lines, n + 1, next, FALSE, fence)
             ELSE IF ClosesFence(line, fence)
                  THEN FancyLoop(lines, n + 1, next, FALSE, fence)
                  ELSE LineFancyIssues(line, pos, 0)
                       \o FancyLoop(lines, n + 1, next, TRUE, fence)

find_fancy_in_code(c) == FancyLoop(Split(c), 1, 0, FALSE, <<>>)

(***************************************************************************)
(* line_and_column and audit_file                                          *)
(***************************************************************************)
\* before.count("\n")
CountNewlines(s) == Cardinality({k \in 1..Len(s) : s[k] = NEWLINE})

\* line_and_column without the + 1 of the first line
LineAndColumnFirstLineOff(c, offset) ==
    LET before == Slice(c, 0, offset)
    IN  <<CountNewlines(before) + 1,
          IF Contains(before, <<NEWLINE>>)
          THEN offset - RFind(before, NEWLINE, Len(before))
          ELSE offset>>

line_and_column(c, offset) ==
    LET before == Slice(c, 0, offset)
        line == CountNewlines(before) + 1
        col == IF Contains(before, <<NEWLINE>>)
               THEN offset - RFind(before, NEWLINE, Len(before))
               ELSE offset + 1
    IN  <<line, col>>

\* audit_file once the text is read: its locals prose, straight and fancy_in_code
audit_locals(c) ==
    LET prose == get_prose_content(c)
    IN  [prose |-> prose,
         straight |-> find_straight_quotes_in_prose(prose),
         fancy_in_code |-> find_fancy_in_code(c)]

\* the dictionary audit_file returns
audit_result(c, locals) ==
    LET straight_with_loc ==
            [k \in 1..Len(locals.straight) |->
                <<line_and_column(locals.prose, locals.straight[k][1]),
                  locals.straight[k][2]>>]
        fancy_with_loc ==
            [k \in 1..Len(locals.fancy_in_code) |->
                <<line_and_column(c, locals.fancy_in_code[k][1]),
                  locals.fancy_in_code[k][2]>>]
    IN  [straight_in_prose |-> straight_with_loc,
         fancy_in_code |-> fancy_with_loc,
         ok |-> straight_with_loc = <<>> /\ fancy_with_loc = <<>>]

audit_content(c) == audit_result(c, audit_locals(c))

(***************************************************************************)
(* The documents the functions are applied to: every concatenation of at   *)
(* most MaxTokens fragments, with an optional "Avoid" marker put at the    *)
(* start of the last line.                                                 *)
(***************************************************************************)
MaxTokens == 4

Fence == <<BACKTICK, BACKTICK, BACKTICK>>
FenceLine == <<NEWLINE, BACKTICK, BACKTICK, BACKTICK, NEWLINE>>
QuotedSpan == <<BACKTICK, STRAIGHT_DOUBLE, BACKTICK>>
DashAvoid == <<"-", " ", "A", "v", "o", "i", "d", ":">>
BoldAvoid == <<"*", "*", "A", "v", "o", "i", "d", "*", "*", ":">>

RECURSIVE Flatten(_)
Flatten(ts) == IF ts = <<>> THEN <<>> ELSE Head(ts) \o Flatten(Tail(ts))

DocumentsOver(tokens) ==
    { Flatten(ts) : ts \in UNION { [1..n -> tokens] : n \in 0..MaxTokens } }

WithMarker(marker, d) ==
    LET at == RFind(d, NEWLINE, Len(d)) + 1
    IN  Slice(d, 0, at) \o marker \o Slice(d, at, Len(d))

RewriteTokens ==
    { <<STRAIGHT_DOUBLE>>, <<STRAIGHT_APOSTROPHE>>, <<BACKTICK>>, <<NEWLINE>>, FenceLine,
      QuotedSpan }

RewriteDocuments ==
    { WithMarker(m, d) : m \in {<<>>, DashAvoid, BoldAvoid},
                         d \in DocumentsOver(RewriteTokens) }

ScanTokens ==
    { <<STRAIGHT_DOUBLE>>, <<STRAIGHT_APOSTROPHE>>, <<BACKTICK>>, <<NEWLINE>>,
      FenceLine, Fence, <<FANCY_APOSTROPHE>>, <<"a">> }

FancyTokens ==
    { Fence, FenceLine, <<NEWLINE>>, <<BACKTICK>>,
      <<FANCY_OPEN_DOUBLE>>, <<FANCY_CLOSE_DOUBLE>>, <<FANCY_APOSTROPHE>> }

(***************************************************************************)
(* The functions applied to one document.                                  *)
(***************************************************************************)
AssemblerIdle ==
    /\ rules_dir = <<>>
    /\ by_prefix = <<>>
    /\ out = <<>>
    /\ sec_num = 0
    /\ agents_md = <<>>
    /\ parsed = <<>>

BumpIdle ==
    /\ argv = <<>>
    /\ plugin_json = <<>>
    /\ marketplace_json = <<>>

TrackersIdle ==
    /\ extractor = <<>>
    /\ classifier = <<>>

ToolsIdle == AssemblerIdle /\ BumpIdle /\ TrackersIdle

MainIdle ==
    /\ mode = "none"
    /\ md_files = <<>>
    /\ disk = <<>>
    /\ disk0 = <<>>
    /\ idx = 0
    /\ violations = <<>>
    /\ fixed_count = 0
    /\ stderr = <<>>
    /\ exit_status = -1

FunctionsIdle ==
    /\ skip_avoid_examples = FALSE
    /\ new_content = <<>>
    /\ again = <<>>
    /\ scan = <<>>
    /\ r = <<>>

InitOver(documents) ==
    /\ content \in documents
    /\ pc = "start"
    /\ FunctionsIdle
    /\ MainIdle
    /\ ToolsIdle

\* new_content = fix_prose_quotes(content, skip_avoid_examples=skip_avoid)
Fix ==
    /\ pc = "start"
    /\ \E skip \in BOOLEAN :
        /\ skip_avoid_examples' = skip
        /\ new_content' = fix_prose_quotes(content, skip)
    /\ pc' = "fixed"
    /\ UNCHANGED <<content, again, scan, r>>
    /\ UNCHANGED mainvars
    /\ UNCHANGED toolvars

\* the rewriter run once more, on its own output
FixAgain ==
    /\ pc = "fixed"
    /\ again' = fix_prose_quotes(new_content, skip_avoid_examples)
    /\ pc' = "refixed"
    /\ UNCHANGED <<content, skip_avoid_examples, new_content, scan, r>>
    /\ UNCHANGED mainvars
    /\ UNCHANGED toolvars

\* r = audit_file(path), the text of path being content
Audit ==
    /\ pc = "start"
    /\ scan' = audit_locals(content)
    /\ r' = audit_result(content, scan')
    /\ pc' = "audited"
    /\ UNCHANGED <<content, skip_avoid_examples, new_content, again>>
    /\ UNCHANGED mainvars
    /\ UNCHANGED toolvars

Init == InitOver(RewriteDocuments)
Next == Fix \/ FixAgain
Spec == Init /\ [][Next]_vars

InitScan == InitOver(DocumentsOver(ScanTokens))
NextScan == Audit
SpecScan == InitScan /\ [][NextScan]_vars

InitFancy == InitOver(DocumentsOver(FancyTokens))
SpecFancy == InitFancy /\ [][NextScan]_vars

(***************************************************************************)
(* The vocabulary of the properties: the span classification of the        *)
(* specification, stated without the scanning loops of the code.           *)
(***************************************************************************)
IsStraight(c) == c \in {STRAIGHT_DOUBLE, STRAIGHT_APOSTROPHE}

Least(S) == CHOOSE x \in S : \A y \in S : x <= y

\* the length of the backtick run a line begins with, after leading whitespace
LeadingRun(line) == BacktickRun(LStrip(line), 0)

\* "prose", "open", "inside" or "close" for each line from line n on; opened is the
\* length of the run that opened the current fence, 0 outside a fence
RECURSIVE FenceLabelsFrom(_, _, _)
FenceLabelsFrom(lines, n, opened) ==
    IF n > Len(lines) THEN <<>>
    ELSE IF opened = 0
         THEN IF LeadingRun(lines[n]) >= 3
              THEN <<"open">> \o FenceLabelsFrom(lines, n + 1, LeadingRun(lines[n]))
              ELSE <<"prose">> \o FenceLabelsFrom(lines, n + 1, 0)
    ELSE IF LeadingRun(lines[n]) >= opened
         THEN <<"close">> \o FenceLabelsFrom(lines, n + 1, 0)
    ELSE <<"inside">> \o FenceLabelsFrom(lines, n + 1, opened)

FenceLabels(lines) == FenceLabelsFrom(lines, 1, 0)

\* the offset at which line n starts
RECURSIVE LineStart(_, _)
LineStart(lines, n) ==
    IF n = 1 THEN 0 ELSE LineStart(lines, n - 1) + Len(lines[n - 1]) + 1

\* the offsets at which a maximal backtick run starts
RunStarts(s) ==
    {j \in 0..(Len(s) - 1) : s[j + 1] = BACKTICK /\ (j = 0 \/ s[j] # BACKTICK)}

\* the offsets of s, from offset from on, that lie in an inline code span: a span opens
\* at a run of n backticks and closes after the next run of at least n; an opening run
\* with no closing run extends to the end of s when swallow, and opens nothing otherwise
RECURSIVE SpanOffsets(_, _, _)
SpanOffsets(s, from, swallow) ==
    LET opens == {j \in RunStarts(s) : j >= from}
    IN  IF opens = {} THEN {}
        ELSE LET o == Least(opens)
                 n == BacktickRun(s, o)
                 closers == {j \in RunStarts(s) : j >= o + n /\ BacktickRun(s, j) >= n}
             IN  IF closers = {}
                 THEN IF swallow THEN o..(Len(s) - 1) ELSE SpanOffsets(s, o + n, swallow)
                 ELSE LET e == Least(closers) + BacktickRun(s, Least(closers))
                      IN  (o..(e - 1)) \cup SpanOffsets(s, e, swallow)

\* the offsets of d on a fence line or inside a fence
FencedOffsets(d) ==
    LET lines == Split(d)
        labels == FenceLabels(lines)
    IN  UNION { IF labels[n] = "prose" THEN {}
                ELSE LET at == LineStart(lines, n)
                     IN  at..(at + Len(lines[n]) - 1)
                : n \in 1..Len(lines) }

\* the offsets of d inside a closed inline code span of a prose line
InlineOffsets(d) ==
    LET lines == Split(d)
        labels == FenceLabels(lines)
    IN  UNION { IF labels[n] # "prose" THEN {}
                ELSE LET at == LineStart(lines, n)
                     IN  {at + j : j \in SpanOffsets(lines[n], 0, FALSE)}
                : n \in 1..Len(lines) }

CodeOffsets(d) == FencedOffsets(d) \cup InlineOffsets(d)

\* the code content of d, offset by offset
CodeContent(d) ==
    LET code == CodeOffsets(d)
    IN  [k \in 1..Len(d) |-> IF (k - 1) \in code THEN d[k] ELSE "prose"]

\* the double-quotes at positions 1..k of content that the rewriter replaced
ReplacedUpTo(k) ==
    Cardinality({m \in 1..k : content[m] = STRAIGHT_DOUBLE /\ new_content[m] # STRAIGHT_DOUBLE})

(***************************************************************************)
(* The properties of the Quote Rewriter.                                   *)
(***************************************************************************)
\* C1: running the rewriter on its own output, with the same flag, changes nothing.
Idempotence == pc = "refixed" => again = new_content

\* C1 witness: a second run after a first run that rewrote a quote and exempted another
IdempotenceWitness ==
    /\ pc = "refixed"
    /\ skip_avoid_examples
    /\ \E k \in 1..Len(content) : IsStraight(content[k]) /\ new_content[k] # content[k]
    /\ \E k \in 1..Len(content) :
        /\ IsStraight(content[k]) /\ new_content[k] = content[k]
        /\ (k - 1) \in prose_offset_set(content)

\* C2: the output has the length of the input and differs from it only where the input
\* holds a straight quote, which becomes a fancy double-quote (for a double-quote) or
\* the fancy apostrophe (for an apostrophe).
NoSilentDataLoss ==
    pc = "fixed" =>
        /\ Len(new_content) = Len(content)
        /\ \A k \in 1..Len(content) :
            new_content[k] # content[k] =>
                \/ /\ content[k] = STRAIGHT_DOUBLE
                   /\ new_content[k] \in {FANCY_OPEN_DOUBLE, FANCY_CLOSE_DOUBLE}
                \/ /\ content[k] = STRAIGHT_APOSTROPHE
                   /\ new_content[k] = FANCY_APOSTROPHE

\* C2 witness: a rewritten document that ends with a newline and holds a backtick
NoSilentDataLossWitness ==
    /\ pc = "fixed"
    /\ content # <<>> /\ content[Len(content)] = NEWLINE
    /\ \E k \in 1..Len(content) : content[k] = BACKTICK
    /\ \E k \in 1..Len(content) : content[k] = STRAIGHT_DOUBLE /\ new_content[k] # content[k]
    /\ \E k \in 1..Len(content) :
        content[k] = STRAIGHT_APOSTROPHE /\ new_content[k] # content[k]

\* C3: every character on a fence line, inside a fence or inside a closed inline code
\* span is the same in the output, and the code content of the output is that of the input.
CodePreservation ==
    pc = "fixed" =>
        /\ Len(new_content) = Len(content)
        /\ \A i \in CodeOffsets(content) : new_content[i + 1] = content[i + 1]
        /\ CodeContent(new_content) = CodeContent(content)

\* C3 witness: a rewriter run on straight quotes in a fence and in an inline span
CodePreservationWitness ==
    /\ pc = "fixed"
    /\ \E i \in FencedOffsets(content) : IsStraight(content[i + 1])
    /\ \E i \in InlineOffsets(content) : IsStraight(content[i + 1])

\* C4: the k-th replaced double-quote of the document is the open glyph for odd k and
\* the close glyph for even k; every replaced apostrophe is the fancy apostrophe.
Alternation ==
    pc = "fixed" /\ Len(new_content) = Len(content) =>
        \A k \in 1..Len(content) :
            /\ content[k] = STRAIGHT_DOUBLE /\ new_content[k] # content[k] =>
                new_content[k] = IF ReplacedUpTo(k) % 2 = 1
                                 THEN FANCY_OPEN_DOUBLE ELSE FANCY_CLOSE_DOUBLE
            /\ content[k] = STRAIGHT_APOSTROPHE /\ new_content[k] # content[k] =>
                new_content[k] = FANCY_APOSTROPHE

\* C4 witness: the second replaced double-quote of a document, on a later line than a
\* double-quote that was copied unchanged
AlternationWitness ==
    /\ pc = "fixed"
    /\ \E a, b, k \in 1..Len(content) :
        /\ a < b /\ b < k
        /\ content[a] = STRAIGHT_DOUBLE /\ new_content[a] = STRAIGHT_DOUBLE
        /\ content[b] = NEWLINE
        /\ content[k] = STRAIGHT_DOUBLE /\ new_content[k] = FANCY_CLOSE_DOUBLE
        /\ ReplacedUpTo(k) = 2

\* the Avoid line as the claim words it: optional whitespace and dashes, an optional bold
\* marker, the word Avoid, an optional closing bold marker, a colon
OptBold(s) == IF StartsWith(s, <<"*", "*">>) THEN Slice(s, 2, Len(s)) ELSE s

ClaimedAvoidLine(line) ==
    LET a == OptBold(SkipSpaceDash(line))
    IN  /\ StartsWith(a, <<"A", "v", "o", "i", "d">>)
        /\ StartsWith(OptBold(Slice(a, 5, Len(a))), <<":">>)

\* C5: with the flag, every straight quote on an Avoid line is left unchanged; without
\* it, the prose quotes of the line are converted.
AvoidExemption ==
    pc = "fixed" =>
        \A k \in 1..Len(content) :
            IsStraight(content[k]) /\ ClaimedAvoidLine(LineAround(content, k - 1)) =>
                IF skip_avoid_examples
                THEN new_content[k] = content[k]
                ELSE (k - 1) \in prose_offset_set(content) => IsFancy(new_content[k])

(***************************************************************************)
(* The properties of the Quote Scanner.                                    *)
(***************************************************************************)
\* the 1-based line of offset off of s
LineOf(s, off) == 1 + Cardinality({k \in 1..off : s[k] = NEWLINE})

\* the 1-based (line, column) of offset off of s: column = 1 + offset within the line
PositionOf(s, off) ==
    LET lines == Split(s)
    IN  CHOOSE p \in (1..Len(lines)) \X (1..(Len(s) + 1)) :
            /\ p[2] <= Len(lines[p[1]]) + 1
            /\ LineStart(lines, p[1]) + p[2] - 1 = off

\* the character at a 1-based (line, column) of s
CharAt(s, p) == Split(s)[p[1]][p[2]]

Offsets(pairs) == {pairs[k][1] : k \in 1..Len(pairs)}

Increasing(pairs) == \A k \in 1..(Len(pairs) - 1) : pairs[k][1] < pairs[k + 1][1]

\* C6: the offsets the straight-in-prose scan reports are exactly the offsets of the prose
\* view that hold a straight quote outside every inline span, a span with no closing run
\* extending to the end of the prose view; none is on a fenced line, and in a document
\* with no backtick every straight quote is reported.
StraightScan ==
    pc = "audited" =>
        LET prose == scan.prose
            reported == Offsets(scan.straight)
        IN  /\ reported = {i \in 0..(Len(prose) - 1) :
                              IsStraight(prose[i + 1]) /\ i \notin SpanOffsets(prose, 0, TRUE)}
            /\ Increasing(scan.straight)
            /\ \A k \in 1..Len(scan.straight) :
                scan.straight[k][2] = prose[scan.straight[k][1] + 1]
            /\ \A i \in reported :
                FenceLabels(Split(content))[LineOf(prose, i)] = "prose"
            /\ (\A k \in 1..Len(content) : content[k] # BACKTICK) =>
                reported = {i \in 0..(Len(content) - 1) : IsStraight(content[i + 1])}

\* C6 witness: a scan that reports a quote and skips one on a later line, which an
\* unclosed backtick run of an earlier line swallowed
StraightScanWitness ==
    /\ pc = "audited"
    /\ scan.straight # <<>>
    /\ \E i \in 0..(Len(scan.prose) - 1) :
        /\ IsStraight(scan.prose[i + 1])
        /\ i \notin Offsets(scan.straight)
        /\ \E j \in 0..(i - 1) :
            /\ scan.prose[j + 1] = BACKTICK
            /\ LineOf(scan.prose, j) < LineOf(scan.prose, i)
            /\ \A k \in (j + 1)..i : scan.prose[k + 1] # BACKTICK

\* the lines the Prose Extractor blanks
BlankedLines(d) ==
    LET lines == Split(d)
        kept == Split(get_prose_content(d))
    IN  {n \in 1..Len(lines) : lines[n] # <<>> /\ kept[n] = <<>>}

\* C7 as claimed: the fancy-in-code scan reports exactly the fancy glyphs on the lines the
\* Prose Extractor blanks, from the fence-opening line to the fence-closing line.
FancyScanOnBlankedLines ==
    pc = "audited" =>
        {scan.fancy_in_code[k] : k \in 1..Len(scan.fancy_in_code)}
            = {<<i, content[i + 1]>> : i \in
                  {j \in 0..(Len(content) - 1) :
                      IsFancy(content[j + 1]) /\ LineOf(content, j) \in BlankedLines(content)}}

\* C7 as amended: the fancy-in-code scan reports, in document order, exactly the fancy
\* glyphs on the lines strictly inside a fence: after the fence-opening line and before
\* the fence-closing line or the end of the document.
FancyScan ==
    pc = "audited" =>
        /\ Increasing(scan.fancy_in_code)
        /\ {scan.fancy_in_code[k] : k \in 1..Len(scan.fancy_in_code)}
            = {<<i, content[i + 1]>> : i \in
                  {j \in 0..(Len(content) - 1) :
                      /\ IsFancy(content[j + 1])
                      /\ FenceLabels(Split(content))[LineOf(content, j)] = "inside"}}

\* C7 witness: a scan that reports a glyph inside a fence and none for the glyph on the
\* fence-opening line
FancyScanWitness ==
    /\ pc = "audited"
    /\ scan.fancy_in_code # <<>>
    /\ \E j \in 0..(Len(content) - 1) :
        /\ IsFancy(content[j + 1])
        /\ FenceLabels(Split(content))[LineOf(content, j)] = "open"

\* C8: every reported position is the 1-based (line, 1 + offset within the line) of the
\* violation's offset, and the character of the original document at the position of a
\* straight-in-prose violation is the reported straight quote.
DiagnosticPositions ==
    pc = "audited" =>
        /\ Len(r.straight_in_prose) = Len(scan.straight)
        /\ Len(r.fancy_in_code) = Len(scan.fancy_in_code)
        /\ \A k \in 1..Len(scan.straight) :
            LET loc == r.straight_in_prose[k]
            IN  /\ loc[1] = PositionOf(scan.prose, scan.straight[k][1])
                /\ loc[2] = scan.straight[k][2]
                /\ IsStraight(loc[2])
                /\ CharAt(content, loc[1]) = loc[2]
        /\ \A k \in 1..Len(scan.fancy_in_code) :
            LET loc == r.fancy_in_code[k]
            IN  /\ loc[1] = PositionOf(content, scan.fancy_in_code[k][1])
                /\ CharAt(content, loc[1]) = loc[2]

\* C8 witness: an audit that reports a straight quote after the first column of the first
\* line and a fancy glyph in a fence below it
DiagnosticPositionsWitness ==
    /\ pc = "audited"
    /\ scan.prose # content
    /\ \E k \in 1..Len(r.fancy_in_code) : r.fancy_in_code[k][1][1] > 1
    /\ \E k \in 1..Len(r.straight_in_prose) :
        /\ r.straight_in_prose[k][1][1] = 1
        /\ r.straight_in_prose[k][1][2] > 1

(***************************************************************************)
(* main: the audit run and the fix run over the .md files under the root.  *)
(* A path is the sequence of its components.                               *)
(***************************************************************************)
Readme == <<"README.md">>
AgentsGeneral == <<"plugins", "frontend-general", "AGENTS.md">>
RuleFragment == <<"plugins", "frontend-general", "rules", "docs-fancy-quotes.md">>
AgentsReact == <<"plugins", "frontend-react", "skills", "frontend-react", "AGENTS.md">>

\* sorted(root.rglob("*.md")), were every file present
SortedPaths == <<Readme, AgentsGeneral, RuleFragment, AgentsReact>>

\* path.name
Name(path) == path[Len(path)]

\* text in str(path), for a text that is a whole component
InPath(text, path) == \E k \in 1..Len(path) : path[k] = text

\* rel_str.endswith("AGENTS.md")
EndsWithAgents(path) == Name(path) = "AGENTS.md"

\* the texts a file may hold, and whether read_text and write_text succeed on it
FileTexts ==
    { <<"a">>,
      <<"a", STRAIGHT_DOUBLE>>,
      Fence \o <<NEWLINE, FANCY_APOSTROPHE>>,
      DashAvoid \o <<STRAIGHT_APOSTROPHE>> }

FileStates == [text : FileTexts, status : {"ok", "unreadable", "readonly"}]

Listed(files) == {files[k] : k \in 1..Len(files)}

\* the sorted lists of files a root may hold
Listings ==
    { SelectSeq(SortedPaths, LAMBDA p : p \in chosen) : chosen \in SUBSET Listed(SortedPaths) }

InitMain ==
    /\ mode \in {"audit", "fix"}
    /\ md_files \in Listings
    /\ disk \in [Listed(md_files) -> FileStates]
    /\ disk0 = disk
    /\ idx = 1
    /\ violations = <<>>
    /\ fixed_count = 0
    /\ stderr = <<>>
    /\ exit_status = -1
    /\ pc = "loop"
    /\ content = <<>>
    /\ skip_avoid_examples = FALSE
    /\ new_content = <<>>
    /\ again = <<>>
    /\ scan = <<>>
    /\ r = <<>>
    /\ ToolsIdle

Iterating(m) == pc = "loop" /\ mode = m /\ idx <= Len(md_files)

Continue(unchanged) ==
    /\ idx' = idx + 1
    /\ UNCHANGED unchanged
    /\ UNCHANGED <<pc, mode, md_files, disk0, exit_status>>
    /\ UNCHANGED fnvars
    /\ UNCHANGED toolvars

\* fix loop: if path.name == "AGENTS.md": continue
FixSkipsGenerated ==
    /\ Iterating("fix")
    /\ Name(md_files[idx]) = "AGENTS.md"
    /\ Continue(<<disk, violations, fixed_count, stderr>>)

\* fix loop: read_text raises, the path is printed on stderr
FixSkipsUnreadable ==
    /\ Iterating("fix")
    /\ Name(md_files[idx]) # "AGENTS.md"
    /\ disk[md_files[idx]].status = "unreadable"
    /\ stderr' = Append(stderr, md_files[idx])
    /\ Continue(<<disk, violations, fixed_count>>)

\* what the fix loop would write to path
Rewritten(path, files) ==
    fix_prose_quotes(files[path].text, InPath("docs-fancy-quotes.md", path))

\* fix loop: the text is read and new_content == content
FixLeaves ==
    /\ Iterating("fix")
    /\ Name(md_files[idx]) # "AGENTS.md"
    /\ disk[md_files[idx]].status # "unreadable"
    /\ Rewritten(md_files[idx], disk) = disk[md_files[idx]].text
    /\ Continue(<<disk, violations, fixed_count, stderr>>)

\* fix loop: the text is read, new_content != content and write_text succeeds
FixWrites ==
    /\ Iterating("fix")
    /\ Name(md_files[idx]) # "AGENTS.md"
    /\ disk[md_files[idx]].status = "ok"
    /\ Rewritten(md_files[idx], disk) # disk[md_files[idx]].text
    /\ disk' = [disk EXCEPT ![md_files[idx]].text = Rewritten(md_files[idx], disk)]
    /\ fixed_count' = fixed_count + 1
    /\ Continue(<<violations, stderr>>)

\* fix loop: new_content != content and write_text raises; nothing catches it
FixWriteRaises ==
    /\ Iterating("fix")
    /\ Name(md_files[idx]) # "AGENTS.md"
    /\ disk[md_files[idx]].status = "readonly"
    /\ Rewritten(md_files[idx], disk) # disk[md_files[idx]].text
    /\ pc' = "raised"
    /\ exit_status' = 1
    /\ UNCHANGED <<mode, md_files, disk, disk0, idx, violations, fixed_count, stderr>>
    /\ UNCHANGED fnvars
    /\ UNCHANGED toolvars

\* fix mode: return 0
FixReturns ==
    /\ pc = "loop" /\ mode = "fix" /\ idx > Len(md_files)
    /\ pc' = "done"
    /\ exit_status' = 0
    /\ UNCHANGED <<mode, md_files, disk, disk0, idx, violations, fixed_count, stderr>>
    /\ UNCHANGED fnvars
    /\ UNCHANGED toolvars

\* the files the audit loop drops although they are not ok
Excluded(path) ==
    \/ InPath("docs-fancy-quotes.md", path)
    \/ EndsWithAgents(path) /\ InPath("frontend-general", path)

\* audit loop: audit_file returns {"error": ...}, the path is printed on stderr
AuditError ==
    /\ Iterating("audit")
    /\ disk[md_files[idx]].status = "unreadable"
    /\ stderr' = Append(stderr, md_files[idx])
    /\ Continue(<<disk, violations, fixed_count>>)

\* audit loop: the file is ok, or it is not and is excluded
AuditPasses ==
    /\ Iterating("audit")
    /\ disk[md_files[idx]].status # "unreadable"
    /\ audit_content(disk[md_files[idx]].text).ok \/ Excluded(md_files[idx])
    /\ Continue(<<disk, violations, fixed_count, stderr>>)

\* audit loop: violations.append((rel, r))
AuditViolation ==
    /\ Iterating("audit")
    /\ disk[md_files[idx]].status # "unreadable"
    /\ ~audit_content(disk[md_files[idx]].text).ok
    /\ ~Excluded(md_files[idx])
    /\ violations' =
        Append(violations, <<md_files[idx], audit_content(disk[md_files[idx]].text)>>)
    /\ Continue(<<disk, fixed_count, stderr>>)

\* audit mode: return 0 if not violations, else the report and return 1
AuditReturns ==
    /\ pc = "loop" /\ mode = "audit" /\ idx > Len(md_files)
    /\ pc' = "done"
    /\ exit_status' = IF violations = <<>> THEN 0 ELSE 1
    /\ UNCHANGED <<mode, md_files, disk, disk0, idx, violations, fixed_count, stderr>>
    /\ UNCHANGED fnvars
    /\ UNCHANGED toolvars

NextMain ==
    \/ FixSkipsGenerated \/ FixSkipsUnreadable \/ FixLeaves \/ FixWrites
    \/ FixWriteRaises \/ FixReturns
    \/ AuditError \/ AuditPasses \/ AuditViolation \/ AuditReturns

SpecMain == InitMain /\ [][NextMain]_vars

(***************************************************************************)
(* The properties of the runs.                                             *)
(***************************************************************************)
Unreadable(path) == disk0[path].status = "unreadable"

\* a violation that is left after the exclusions as the claim words them: the rule's own
\* fragment is excluded, the generated AGENTS.md from the straight-in-prose check only
ClaimedViolation(path) ==
    LET a == audit_content(disk0[path].text)
    IN  /\ ~InPath("docs-fancy-quotes.md", path)
        /\ \/ a.fancy_in_code # <<>>
           \/ a.straight_in_prose # <<>> /\ Name(path) # "AGENTS.md"

\* C9: an audit run processes every file and returns 1 exactly when a readable file has a
\* violation left after the exclusions, 0 otherwise; an unreadable file is reported as an
\* error and contributes no violation.
AuditExitStatus ==
    mode = "audit" /\ pc = "done" =>
        /\ idx = Len(md_files) + 1
        /\ stderr = SelectSeq(md_files, Unreadable)
        /\ \A k \in 1..Len(violations) : ~Unreadable(violations[k][1])
        /\ exit_status \in {0, 1}
        /\ exit_status = 1 <=>
            \E path \in Listed(md_files) : ~Unreadable(path) /\ ClaimedViolation(path)

\* a file on which the fix run fails: it cannot be read, or it cannot be written
FixFails(path) ==
    \/ Unreadable(path)
    \/ disk0[path].status = "readonly" /\ Rewritten(path, disk0) # disk0[path].text

\* C10: after a fix run AGENTS.md is unchanged, a file on which a failure occurred is
\* unchanged, every other file holds fix_prose_quotes of its original text, and the run
\* ends with exit status 0.
FixPostState ==
    mode = "fix" /\ pc \in {"done", "raised"} =>
        /\ exit_status = 0
        /\ \A path \in Listed(md_files) :
            IF Name(path) = "AGENTS.md" \/ FixFails(path)
            THEN disk[path] = disk0[path]
            ELSE disk[path].text = Rewritten(path, disk0)

(***************************************************************************)
(* build_agents.py: strip_frontmatter                                      *)
(***************************************************************************)
Marker == <<"-", "-", "-">>
HeadingMark == <<"#", "#", " ">>

\* s.find(p, i) for a pattern p: the least offset >= i at which p occurs, or -1
FindSeq(s, p, i) ==
    LET hits == {a \in i..(Len(s) - Len(p)) : \A k \in 1..Len(p) : s[a + k] = p[k]}
    IN  IF hits = {} THEN -1 ELSE CHOOSE a \in hits : \A m \in hits : a <= m

\* content.split("---", 2)
SplitMarker(c) ==
    LET a == FindSeq(c, Marker, 0)
        b == FindSeq(c, Marker, a + Len(Marker))
    IN  IF a = -1 THEN <<c>>
        ELSE IF b = -1 THEN <<Slice(c, 0, a), Slice(c, a + Len(Marker), Len(c))>>
        ELSE <<Slice(c, 0, a), Slice(c, a + Len(Marker), b), Slice(c, b + Len(Marker), Len(c))>>

\* s.lstrip("\n")
RECURSIVE LStripNewlines(_)
LStripNewlines(s) == IF s # <<>> /\ Head(s) = NEWLINE THEN LStripNewlines(Tail(s)) ELSE s

\* s.strip() of a text of several lines: spaces and newlines go
IsWhite(c) == IsSpace(c) \/ c = NEWLINE

RECURSIVE LStripText(_)
LStripText(s) == IF s # <<>> /\ IsWhite(Head(s)) THEN LStripText(Tail(s)) ELSE s

RECURSIVE RStripText(_)
RStripText(s) ==
    IF s # <<>> /\ IsWhite(s[Len(s)]) THEN RStripText(SubSeq(s, 1, Len(s) - 1)) ELSE s

StripText(s) == RStripText(LStripText(s))

\* the "for line in lines" loop from line n on: the title and rest_lines it ends with
RECURSIVE TitleLoop(_, _, _, _)
TitleLoop(lines, n, title, rest_lines) ==
    IF n > Len(lines) THEN [title |-> title, rest_lines |-> rest_lines]
    ELSE IF StartsWith(lines[n], HeadingMark) /\ title = <<>>
         THEN TitleLoop(lines, n + 1, Strip(Slice(lines[n], 3, Len(lines[n]))), rest_lines)
    ELSE TitleLoop(lines, n + 1, title, Append(rest_lines, lines[n]))

\* the body before the title is looked for: the text after the frontmatter
AfterFrontmatter(c) ==
    IF StartsWith(c, Marker)
    THEN LET parts == SplitMarker(c)
         IN  IF Len(parts) >= 3 THEN LStripNewlines(parts[3]) ELSE c
    ELSE c

strip_frontmatter(c) ==
    LET found == TitleLoop(Split(AfterFrontmatter(c)), 1, <<>>, <<>>)
    IN  [title |-> found.title, body |-> StripText(Join(found.rest_lines))]

(***************************************************************************)
(* build_agents.py: main.  A file name is a sequence of characters; a line *)
(* of out is the sequence of the pieces its f-string is made of (literal   *)
(* text, numbers, a title), the empty line is <<>> and a body is the       *)
(* sequence of its characters.                                             *)
(***************************************************************************)
SECTION_ORDER ==
    << <<<<"b", "u", "n", "d", "l", "e">>, "Bundle Size Optimization", "CRITICAL">>,
       <<<<"c", "l", "i", "e", "n", "t">>, "Client-Side Data Fetching", "MEDIUM-HIGH">>,
       <<<<"r", "e", "r", "e", "n", "d", "e", "r">>, "Re-render Optimization", "MEDIUM">>,
       <<<<"r", "e", "n", "d", "e", "r", "i", "n", "g">>, "Rendering Performance", "MEDIUM">>,
       <<<<"a", "d", "v", "a", "n", "c", "e", "d">>, "Advanced Patterns", "LOW">> >>

\* section_title.lower().replace(" ", "-")
Anchor(section_title) ==
    CASE section_title = "Bundle Size Optimization" -> "bundle-size-optimization"
      [] section_title = "Client-Side Data Fetching" -> "client-side-data-fetching"
      [] section_title = "Re-render Optimization" -> "re-render-optimization"
      [] section_title = "Rendering Performance" -> "rendering-performance"
      [] section_title = "Advanced Patterns" -> "advanced-patterns"

\* the characters of file names, in code point order
CodePoints ==
    <<"-", ".", "0", "1", "2", "_", "a", "b", "c", "d", "e", "f", "g", "h", "i", "j", "k",
      "l", "m", "n", "o", "p", "q", "r", "s", "t", "u", "v", "w", "x", "y", "z">>

Ord(c) == CHOOSE k \in 1..Len(CodePoints) : CodePoints[k] = c

\* a < b for two strings
RECURSIVE NameLess(_, _)
NameLess(a, b) ==
    IF b = <<>> THEN FALSE
    ELSE IF a = <<>> THEN TRUE
    ELSE IF Head(a) = Head(b) THEN NameLess(Tail(a), Tail(b))
    ELSE Ord(Head(a)) < Ord(Head(b))

\* sorted(files, key=lambda p: p.name), the names of a directory being distinct
RECURSIVE SortByName(_)
SortByName(files) ==
    IF files = {} THEN <<>>
    ELSE LET first == CHOOSE f \in files : \A g \in files \ {f} : NameLess(f, g)
         IN  <<first>> \o SortByName(files \ {first})

\* f.suffix and f.stem, for a name that does not begin with a dot
PathSuffix(name) ==
    LET dot == RFind(name, ".", Len(name))
    IN  IF dot <= 0 THEN <<>> ELSE Slice(name, dot, Len(name))

PathStem(name) == Slice(name, 0, Len(name) - Len(PathSuffix(name)))

\* name.split("-", 1)[0] taken at the last dash instead of the first
PrefixAtLastDash(stem) == Slice(stem, 0, RFind(stem, "-", Len(stem)))

\* name.split("-", 1)[0], for a name that holds a dash
PrefixOf(stem) == Slice(stem, 0, Find(stem, "-", 0))

\* the files the "for f in RULES_DIR.iterdir()" loop puts in by_prefix
Grouped(dir) ==
    {f \in DOMAIN dir :
        /\ PathSuffix(f) = <<".", "m", "d">>
        /\ ~StartsWith(f, <<"_">>)
        /\ Contains(PathStem(f), <<"-">>)}

\* by_prefix.get(prefix, [])
FilesOf(groups, prefix) == IF prefix \in DOMAIN groups THEN groups[prefix] ELSE <<>>

\* the lines appended before the table of contents
Preamble ==
    << <<"# React Best Practices">>, <<>>, <<"**Version 1.0.0**">>, <<"React">>, <<>>,
       <<"> **Note:**">>,
       <<"> This document is for agents and LLMs when maintaining, generating, or refactoring">>,
       <<"> React codebases. For framework-agnostic patterns, see the ", BACKTICK,
         "frontend-general", BACKTICK, " skill.">>,
       <<>>, <<"---">>, <<>>, <<"## Abstract">>, <<>>,
       <<"React-specific performance and best-practices guide.">>,
       <<"Rules across 5 categories: bundle optimization with React.lazy/Suspense, client-side">>,
       <<"data fetching with SWR, re-render optimization, React rendering patterns, and advanced">>,
       <<"hook patterns. Each rule includes incorrect vs. correct examples.">>,
       <<>>, <<"---">>, <<>>, <<"## Table of Contents">>, <<>> >>

\* f"{sec_num}. [{section_title}](#{sec_num}-{anchor}) <U+2014> **{impact}**"
TocSectionLine(n, section_title, impact) ==
    <<n, ". [", section_title, "](#", n, "-", Anchor(section_title), ") ", "U+2014", " **",
      impact, "**">>

\* f"   - {sec_num}.{r_num} {title}"
TocEntryLine(n, r_num, title) == <<"   - ", n, ".", r_num, " ", title>>

\* f"## {sec_num}. {section_title}"
BodySectionLine(n, section_title) == <<"## ", n, ". ", section_title>>

\* BodyEntryLine that counts the fragments of a section from 0
BodyEntryLineFromZero(n, r_num, title) == <<"### ", n, ".", r_num - 1, " ", title>>

\* f"### {sec_num}.{r_num} {title}"
BodyEntryLine(n, r_num, title) == <<"### ", n, ".", r_num, " ", title>>

\* the "for r_num, f in enumerate(files, 1)" loop of the table of contents
TocEntries(dir, n, files) ==
    [k \in 1..Len(files) |-> TocEntryLine(n, k, strip_frontmatter(dir[files[k]]).title)]

\* the "for r_num, f in enumerate(files, 1)" loop of the body, from fragment k on
RECURSIVE BodyEntries(_, _, _, _)
BodyEntries(dir, n, files, k) ==
    IF k > Len(files) THEN <<>>
    ELSE LET fragment == strip_frontmatter(dir[files[k]])
         IN  <<BodyEntryLine(n, k, fragment.title), <<>>, fragment.body, <<>>>>
             \o BodyEntries(dir, n, files, k + 1)

(***************************************************************************)
(* The rules directories build_agents.main is run on, and its steps.       *)
(***************************************************************************)
Md == <<".", "m", "d">>
Bundle == <<"b", "u", "n", "d", "l", "e">>

RuleNames ==
    { Bundle \o <<"-", "a">> \o Md,
      Bundle \o <<"-", "a", "-", "b">> \o Md,
      <<"c", "l", "i", "e", "n", "t", "-", "a">> \o Md,
      <<"r", "e", "r", "e", "n", "d", "e", "r", "-", "a">> \o Md,
      <<"r", "e", "n", "d", "e", "r", "i", "n", "g", "-", "a">> \o Md,
      <<"_", "s", "e", "c", "t", "i", "o", "n", "s">> \o Md,
      Bundle \o Md,
      Bundle \o <<"-", "a", ".", "t", "x", "t">> }

\* a fragment with no frontmatter, and one with frontmatter and blank lines around its body
PlainFragment == HeadingMark \o <<"a", NEWLINE, "x">>
FrontedFragment ==
    Marker \o <<NEWLINE, "t", NEWLINE>> \o Marker \o <<NEWLINE, NEWLINE>>
    \o HeadingMark \o <<"b", " ", NEWLINE, NEWLINE, STRAIGHT_APOSTROPHE, "y", NEWLINE>>

FragmentTexts == {PlainFragment, FrontedFragment}

RulesDirs == UNION { [names -> FragmentTexts] : names \in SUBSET RuleNames }

InitBuild ==
    /\ rules_dir \in RulesDirs
    /\ by_prefix = <<>>
    /\ out = <<>>
    /\ sec_num = 0
    /\ agents_md = <<>>
    /\ parsed = <<>>
    /\ pc = "collect"
    /\ content = <<>>
    /\ FunctionsIdle
    /\ MainIdle
    /\ BumpIdle
    /\ TrackersIdle

AssemblerStep(unchanged) ==
    /\ UNCHANGED unchanged
    /\ UNCHANGED <<rules_dir, agents_md, parsed, argv, plugin_json, marketplace_json>>
    /\ UNCHANGED trackvars
    /\ UNCHANGED fnvars
    /\ UNCHANGED mainvars

\* main down to the "## Table of Contents" heading: by_prefix is built and sorted
Collect ==
    /\ pc = "collect"
    /\ by_prefix' =
        [prefix \in {PrefixOf(PathStem(f)) : f \in Grouped(rules_dir)} |->
            SortByName({f \in Grouped(rules_dir) : PrefixOf(PathStem(f)) = prefix})]
    /\ out' = Preamble
    /\ sec_num' = 1
    /\ pc' = "toc"
    /\ AssemblerStep(<<>>)

\* the first loop over SECTION_ORDER: "if not files: continue"
TocSkips ==
    /\ pc = "toc" /\ sec_num <= Len(SECTION_ORDER)
    /\ FilesOf(by_prefix, SECTION_ORDER[sec_num][1]) = <<>>
    /\ sec_num' = sec_num + 1
    /\ AssemblerStep(<<pc, by_prefix, out>>)

\* the first loop over SECTION_ORDER: the entry of a section and its sub-entries
TocSection ==
    /\ pc = "toc" /\ sec_num <= Len(SECTION_ORDER)
    /\ LET files == FilesOf(by_prefix, SECTION_ORDER[sec_num][1])
       IN  /\ files # <<>>
           /\ out' = out
                \o <<TocSectionLine(sec_num, SECTION_ORDER[sec_num][2], SECTION_ORDER[sec_num][3])>>
                \o TocEntries(rules_dir, sec_num, files)
                \o << <<>> >>
    /\ sec_num' = sec_num + 1
    /\ AssemblerStep(<<pc, by_prefix>>)

\* between the loops: the rule that ends the table of contents
TocEnds ==
    /\ pc = "toc" /\ sec_num > Len(SECTION_ORDER)
    /\ out' = out \o << <<"---">>, <<>> >>
    /\ sec_num' = 1
    /\ pc' = "body"
    /\ AssemblerStep(<<by_prefix>>)

\* the second loop over SECTION_ORDER: "if not files: continue"
BodySkips ==
    /\ pc = "body" /\ sec_num <= Len(SECTION_ORDER)
    /\ FilesOf(by_prefix, SECTION_ORDER[sec_num][1]) = <<>>
    /\ sec_num' = sec_num + 1
    /\ AssemblerStep(<<pc, by_prefix, out>>)

\* the second loop over SECTION_ORDER: the heading of a section and its fragments
BodySection ==
    /\ pc = "body" /\ sec_num <= Len(SECTION_ORDER)
    /\ LET files == FilesOf(by_prefix, SECTION_ORDER[sec_num][1])
       IN  /\ files # <<>>
           /\ out' = out
                \o <<BodySectionLine(sec_num, SECTION_ORDER[sec_num][2]), <<>>>>
                \o BodyEntries(rules_dir, sec_num, files, 1)
                \o << <<>> >>
    /\ sec_num' = sec_num + 1
    /\ AssemblerStep(<<pc, by_prefix>>)

\* OUTPUT.write_text("\n".join(out)): the file holds the lines of out
Write ==
    /\ pc = "body" /\ sec_num > Len(SECTION_ORDER)
    /\ agents_md' = out
    /\ pc' = "written"
    /\ UNCHANGED <<rules_dir, by_prefix, out, sec_num, parsed, argv, plugin_json,
                   marketplace_json>>
    /\ UNCHANGED trackvars
    /\ UNCHANGED fnvars
    /\ UNCHANGED mainvars

NextBuild ==
    \/ Collect \/ TocSkips \/ TocSection \/ TocEnds \/ BodySkips \/ BodySection \/ Write

SpecBuild == InitBuild /\ [][NextBuild]_vars

(***************************************************************************)
(* The properties of the Document Assembler.                               *)
(***************************************************************************)
\* the kinds of line of the output, by the pieces they are made of
IsTocSection(line) == Len(line) = 12 /\ line[2] = ". ["
IsTocEntry(line) == Len(line) = 6 /\ line[1] = "   - "
IsBodySection(line) == Len(line) = 4 /\ line[1] = "## "
IsBodyEntry(line) == Len(line) = 6 /\ line[1] = "### "

\* the table of contents and the body of an output: before and after the rule between them
IsRule(line) == Len(line) = 1 /\ line[1] = "---"
TocPart(lines) ==
    SubSeq(lines, 1, Least({k \in (Len(Preamble) + 1)..Len(lines) : IsRule(lines[k])}))
BodyPart(lines) == SubSeq(lines, Len(TocPart(lines)) + 1, Len(lines))

\* the fragments of taxonomy entry n: the files named <prefix>-<suffix>.md
FragmentsOf(dir, n) ==
    LET lead == SECTION_ORDER[n][1] \o <<"-">>
    IN  {f \in DOMAIN dir :
            /\ StartsWith(f, lead)
            /\ Len(f) >= Len(lead) + Len(Md)
            /\ Slice(f, Len(f) - Len(Md), Len(f)) = Md}

\* the fragments of taxonomy entry n in lexicographic filename order
InNameOrder(dir, n) ==
    LET files == FragmentsOf(dir, n)
    IN  CHOOSE q \in [1..Cardinality(files) -> files] :
            /\ \A f \in files : \E k \in DOMAIN q : q[k] = f
            /\ \A k \in 1..(Cardinality(files) - 1) : NameLess(q[k], q[k + 1])

\* what an output lists, line by line: <<"section", number, <<>>, <<>>>> for a section and
\* <<"fragment", 0, title, body>> for a fragment, the body being <<>> in a table of contents
RECURSIVE Listing(_, _)
Listing(lines, k) ==
    IF k > Len(lines) THEN <<>>
    ELSE IF IsTocSection(lines[k]) THEN
        << <<"section", lines[k][1], <<>>, <<>>>> >> \o Listing(lines, k + 1)
    ELSE IF IsBodySection(lines[k]) THEN
        << <<"section", lines[k][2], <<>>, <<>>>> >> \o Listing(lines, k + 1)
    ELSE IF IsTocEntry(lines[k]) THEN
        << <<"fragment", 0, lines[k][6], <<>>>> >> \o Listing(lines, k + 1)
    ELSE IF IsBodyEntry(lines[k]) THEN
        << <<"fragment", 0, lines[k][6], lines[k + 2]>> >> \o Listing(lines, k + 3)
    ELSE Listing(lines, k + 1)

\* what the output is to list for the taxonomy entries from n on
RECURSIVE ExpectedListing(_, _, _)
ExpectedListing(dir, n, with_body) ==
    IF n > Len(SECTION_ORDER) THEN <<>>
    ELSE IF FragmentsOf(dir, n) = {} THEN ExpectedListing(dir, n + 1, with_body)
    ELSE LET files == InNameOrder(dir, n)
         IN  << <<"section", n, <<>>, <<>>>> >>
             \o [k \in 1..Len(files) |->
                   <<"fragment", 0, strip_frontmatter(dir[files[k]]).title,
                     IF with_body THEN strip_frontmatter(dir[files[k]]).body ELSE <<>>>>]
             \o ExpectedListing(dir, n + 1, with_body)

\* C11: the table of contents and the body each list the sections in taxonomy order, a
\* section exactly for the taxonomy entries with a fragment <prefix>-<suffix>.md, the
\* fragments of a section in lexicographic filename order and each once; no other file
\* is listed.
GroupingAndOrder ==
    pc = "written" =>
        /\ Listing(TocPart(agents_md), 1) = ExpectedListing(rules_dir, 1, FALSE)
        /\ Listing(BodyPart(agents_md), 1) = ExpectedListing(rules_dir, 1, TRUE)

\* C11 witness: an output for a directory with two bundle fragments of different texts, a
\* file with a leading underscore, a file without a dash, no client fragment and a
\* rerender fragment
GroupingAndOrderWitness ==
    /\ pc = "written"
    /\ Cardinality(FragmentsOf(rules_dir, 1)) = 2
    /\ \E f, g \in FragmentsOf(rules_dir, 1) : rules_dir[f] # rules_dir[g]
    /\ \E f \in DOMAIN rules_dir : StartsWith(f, <<"_">>)
    /\ \E f \in DOMAIN rules_dir : ~Contains(f, <<"-">>) /\ ~StartsWith(f, <<"_">>)
    /\ FragmentsOf(rules_dir, 2) = {}
    /\ FragmentsOf(rules_dir, 3) # {}

\* the <<section, index, title>> of the sub-entries of a part, in order
Numbered(lines, IsEntry(_)) ==
    LET entries == SelectSeq(lines, IsEntry)
    IN  [k \in 1..Len(entries) |-> <<entries[k][2], entries[k][4], entries[k][6]>>]

\* the <<number, display name>> of the sections of the table of contents and of the body
TocSections(lines) ==
    LET sections == SelectSeq(lines, IsTocSection)
    IN  [k \in 1..Len(sections) |-> <<sections[k][1], sections[k][3]>>]

BodySections(lines) ==
    LET sections == SelectSeq(lines, IsBodySection)
    IN  [k \in 1..Len(sections) |-> <<sections[k][2], sections[k][4]>>]

\* C12: the sub-entries of the table of contents and the sub-headings of the body are the
\* same <<section, index, title>> in the same order, no <<section, index>> occurs twice,
\* the sections carry the same numbers in both parts, and the indexes of a section are
\* 1..n with the titles of its fragments in sorted-filename order.
Numbering ==
    pc = "written" =>
        LET toc == Numbered(TocPart(agents_md), IsTocEntry)
            body == Numbered(BodyPart(agents_md), IsBodyEntry)
        IN  /\ toc = body
            /\ \A j, k \in 1..Len(toc) :
                toc[j][1] = toc[k][1] /\ toc[j][2] = toc[k][2] => j = k
            /\ TocSections(TocPart(agents_md)) = BodySections(BodyPart(agents_md))
            /\ \A n \in 1..Len(SECTION_ORDER) :
                LET files == InNameOrder(rules_dir, n)
                    IsOfSection(e) == e[1] = n
                IN  SelectSeq(toc, IsOfSection) =
                        [k \in 1..Len(files) |->
                            <<n, k, strip_frontmatter(rules_dir[files[k]]).title>>]

\* C12 witness: an output with two fragments of different titles in section 1, no
\* section 2 and a section numbered 4
NumberingWitness ==
    /\ pc = "written"
    /\ \E j, k \in 1..Len(agents_md) :
        /\ IsBodyEntry(agents_md[j]) /\ agents_md[j][2] = 1 /\ agents_md[j][4] = 1
        /\ IsBodyEntry(agents_md[k]) /\ agents_md[k][2] = 1 /\ agents_md[k][4] = 2
        /\ agents_md[j][6] # agents_md[k][6]
    /\ \A k \in 1..Len(agents_md) : IsBodySection(agents_md[k]) => agents_md[k][2] # 2
    /\ \E k \in 1..Len(agents_md) : IsTocSection(agents_md[k]) /\ agents_md[k][1] = 4

(***************************************************************************)
(* strip_frontmatter applied to one fragment text.                         *)
(***************************************************************************)
TitleLine == HeadingMark \o <<"t", NEWLINE>>

FragmentTokens == { Marker, HeadingMark, TitleLine, <<NEWLINE>>, <<"t">>, <<" ">> }

InitParse ==
    /\ content \in DocumentsOver(FragmentTokens)
    /\ pc = "start"
    /\ FunctionsIdle
    /\ MainIdle
    /\ ToolsIdle

\* title, body = strip_frontmatter(content)
Parse ==
    /\ pc = "start"
    /\ parsed' = strip_frontmatter(content)
    /\ pc' = "parsed"
    /\ UNCHANGED <<rules_dir, by_prefix, out, sec_num, agents_md, argv, plugin_json,
                   marketplace_json>>
    /\ UNCHANGED trackvars
    /\ UNCHANGED fnvars
    /\ UNCHANGED mainvars

NextParse == Parse
SpecParse == InitParse /\ [][NextParse]_vars

\* the offsets after the opening marker at which a second marker begins
SecondMarkers(c) ==
    {b \in Len(Marker)..(Len(c) - Len(Marker)) : Slice(c, b, b + Len(Marker)) = Marker}

\* the lines of a fragment after its frontmatter; all of them when the text does not begin
\* with a marker or no second marker follows
LinesAfterFrontmatter(c) ==
    IF StartsWith(c, Marker) /\ SecondMarkers(c) # {}
    THEN Split(Slice(c, Least(SecondMarkers(c)) + Len(Marker), Len(c)))
    ELSE Split(c)

HeadingLines(lines) == {n \in 1..Len(lines) : StartsWith(lines[n], HeadingMark)}

\* lines without line n
Without(lines, n) == SubSeq(lines, 1, n - 1) \o SubSeq(lines, n + 1, Len(lines))

\* a text without its leading and trailing blank lines, nor the whitespace at its two ends
Trimmed(text) ==
    LET kept == {k \in 1..Len(text) : ~IsWhite(text[k])}
    IN  IF kept = {} THEN <<>>
        ELSE SubSeq(text, Least(kept), CHOOSE k \in kept : \A m \in kept : m <= k)

\* C13: the Title is the stripped text of the first level-2 heading line after the
\* frontmatter, and the Body is the remaining lines in order, with the frontmatter and
\* that one line removed and the leading and trailing blank lines trimmed (with the
\* whitespace at the two ends of the text); with no second marker nothing is removed as
\* frontmatter.
FragmentParsing ==
    pc = "parsed" =>
        LET lines == LinesAfterFrontmatter(content)
            headings == HeadingLines(lines)
        IN  IF headings = {}
            THEN /\ parsed.title = <<>>
                 /\ parsed.body = Trimmed(Join(lines))
            ELSE LET first == Least(headings)
                 IN  /\ parsed.title = Strip(Slice(lines[first], Len(HeadingMark), Len(lines[first])))
                     /\ parsed.body = Trimmed(Join(Without(lines, first)))

(***************************************************************************)
(* bump_plugin_version.py: main.  plugin_json gives, for each directory    *)
(* under plugins/, whether .claude-plugin/plugin.json exists and the       *)
(* version it holds; marketplace_json whether the registry exists and the  *)
(* entries of its "plugins" array.  A version is a sequence of characters. *)
(***************************************************************************)
PluginNames == {"frontend-general", "frontend-react"}
Versions == { <<"1">>, <<" ", "2">> }

\* sys.argv[1:]: no argument, or a plugin name and a version
Arguments == { <<>> } \cup ((PluginNames \cup {"frontend-vue"}) \X Versions)

PluginFiles == [PluginNames -> [exists : BOOLEAN, version : {<<"0">>}]]

\* the "plugins" arrays of a registry: the entries have distinct names
Registries ==
    { [k \in 1..Len(names) |-> [name |-> names[k], version |-> <<"0">>]] :
        names \in { <<>>, <<"frontend-general">>, <<"frontend-react">>,
                    <<"frontend-general", "frontend-react">> } }

InitBump ==
    /\ argv \in Arguments
    /\ plugin_json \in PluginFiles
    /\ marketplace_json \in [exists : BOOLEAN, plugins : Registries]
    /\ pc = "start"
    /\ stderr = <<>>
    /\ exit_status = -1
    /\ content = <<>>
    /\ FunctionsIdle
    /\ mode = "none"
    /\ md_files = <<>>
    /\ disk = <<>>
    /\ disk0 = <<>>
    /\ idx = 0
    /\ violations = <<>>
    /\ fixed_count = 0
    /\ AssemblerIdle
    /\ TrackersIdle

\* plugin_json.exists(), for the plugin named on the command line
PluginJsonExists == argv[1] \in DOMAIN plugin_json /\ plugin_json[argv[1]].exists

\* the "for p in data.get("plugins", [])" loop: the position of the first entry named
\* name, or 0 when the loop ends without a break
RECURSIVE EntryOf(_, _, _)
EntryOf(plugins, name, k) ==
    IF k > Len(plugins) THEN 0
    ELSE IF plugins[k].name = name THEN k
    ELSE EntryOf(plugins, name, k + 1)

\* main returns status, having printed messages on stderr
Returns(status, messages) ==
    /\ pc' = "done"
    /\ exit_status' = status
    /\ stderr' = stderr \o messages
    /\ UNCHANGED <<argv, mode, md_files, disk, disk0, idx, violations, fixed_count>>
    /\ UNCHANGED <<rules_dir, by_prefix, out, sec_num, agents_md, parsed>>
    /\ UNCHANGED trackvars
    /\ UNCHANGED fnvars

\* if len(sys.argv) != 3: the usage, return 1
BumpUsage ==
    /\ pc = "start"
    /\ Len(argv) # 2
    /\ Returns(1, <<"Usage", "Example">>)
    /\ UNCHANGED <<plugin_json, marketplace_json>>

\* if not plugin_json.exists(): return 1
BumpNoPluginJson ==
    /\ pc = "start"
    /\ Len(argv) = 2
    /\ ~PluginJsonExists
    /\ Returns(1, <<"Not found: plugin.json">>)
    /\ UNCHANGED <<plugin_json, marketplace_json>>

\* BumpNoMarketplaceJson that reports the missing registry and returns 0
BumpNoMarketplaceJsonAsWarning ==
    /\ pc = "start"
    /\ Len(argv) = 2
    /\ PluginJsonExists
    /\ ~marketplace_json.exists
    /\ Returns(0, <<"Not found: marketplace.json">>)
    /\ UNCHANGED <<plugin_json, marketplace_json>>

\* if not marketplace_json.exists(): return 1
BumpNoMarketplaceJson ==
    /\ pc = "start"
    /\ Len(argv) = 2
    /\ PluginJsonExists
    /\ ~marketplace_json.exists
    /\ Returns(1, <<"Not found: marketplace.json">>)
    /\ UNCHANGED <<plugin_json, marketplace_json>>

\* both files exist and the registry has an entry for the plugin: both are updated
BumpUpdates ==
    /\ pc = "start"
    /\ Len(argv) = 2
    /\ PluginJsonExists
    /\ marketplace_json.exists
    /\ LET k == EntryOf(marketplace_json.plugins, argv[1], 1)
       IN  /\ k # 0
           /\ marketplace_json' = [marketplace_json EXCEPT !.plugins[k].version = Strip(argv[2])]
    /\ plugin_json' = [plugin_json EXCEPT ![argv[1]].version = Strip(argv[2])]
    /\ Returns(0, <<>>)

\* both files exist and the for loop ends without a break: plugin.json is updated, the
\* warning is printed, the registry is written back as it was, return 0
BumpWarns ==
    /\ pc = "start"
    /\ Len(argv) = 2
    /\ PluginJsonExists
    /\ marketplace_json.exists
    /\ EntryOf(marketplace_json.plugins, argv[1], 1) = 0
    /\ plugin_json' = [plugin_json EXCEPT ![argv[1]].version = Strip(argv[2])]
    /\ Returns(0, <<"Warning: no plugin named">>)
    /\ UNCHANGED marketplace_json

NextBump ==
    \/ BumpUsage \/ BumpNoPluginJson \/ BumpNoMarketplaceJson \/ BumpUpdates \/ BumpWarns

SpecBump == InitBump /\ [][NextBump]_vars

(***************************************************************************)
(* The properties of the version bump.                                     *)
(***************************************************************************)
\* the component identifier is absent from the registry's array of entries
AbsentFromRegistry ==
    \A k \in 1..Len(marketplace_json.plugins) : marketplace_json.plugins[k].name # argv[1]

Warned == \E k \in 1..Len(stderr) : stderr[k] = "Warning: no plugin named"

\* C14 as claimed: a run given a name and a version ends with a non-zero status if
\* plugin.json is missing, if marketplace.json is missing, or if the name is absent from the
\* registry's array.
BumpFailureWithAbsentEntry ==
    pc = "done" /\ Len(argv) = 2 =>
        (~PluginJsonExists \/ ~marketplace_json.exists \/ AbsentFromRegistry
            => exit_status # 0)

\* C14 as amended: a run given a name and a version ends with a non-zero status exactly
\* when plugin.json or marketplace.json is missing; when both exist and the name is absent
\* from the registry's array, the run prints a warning, has set the version in
\* plugin.json, and ends with status 0.
BumpFailure ==
    pc = "done" /\ Len(argv) = 2 =>
        /\ exit_status # 0 <=> ~PluginJsonExists \/ ~marketplace_json.exists
        /\ PluginJsonExists /\ marketplace_json.exists /\ AbsentFromRegistry =>
            /\ exit_status = 0
            /\ Warned
            /\ plugin_json[argv[1]].version = Strip(argv[2])

\* C14 witness: a finished run for a plugin whose plugin.json exists, with a registry
\* that exists and holds another plugin only
BumpFailureWitness ==
    /\ pc = "done"
    /\ Len(argv) = 2
    /\ PluginJsonExists
    /\ marketplace_json.exists
    /\ marketplace_json.plugins # <<>>
    /\ AbsentFromRegistry
    /\ Warned

(***************************************************************************)
(* The fence tracker, line by line: the "for line in lines" loops of       *)
(* get_prose_content and of prose_offset_set, each with the list of what   *)
(* it did on every line ("open", "close" or "none").                       *)
(***************************************************************************)
TrackTokens ==
    { Fence, FenceLine, <<BACKTICK>>, <<NEWLINE>>, <<" ">>, <<"a">>, <<STRAIGHT_DOUBLE>> }

InitTrack ==
    /\ content \in DocumentsOver(TrackTokens)
    /\ pc = "extract"
    /\ extractor = [lines |-> Split(content), n |-> 1, in_fence |-> FALSE, fence_char |-> <<>>,
                    out |-> <<>>, events |-> <<>>, result |-> <<>>]
    /\ classifier = [lines |-> Split(content), n |-> 1, pos |-> 0, in_fence |-> FALSE,
                     fence |-> <<>>, prose_offsets |-> {}, events |-> <<>>]
    /\ FunctionsIdle
    /\ MainIdle
    /\ AssemblerIdle
    /\ BumpIdle

TrackerStep(unchanged) ==
    /\ UNCHANGED unchanged
    /\ UNCHANGED <<rules_dir, by_prefix, out, sec_num, agents_md, parsed, argv, plugin_json,
                   marketplace_json>>
    /\ UNCHANGED fnvars
    /\ UNCHANGED mainvars

Extracting == pc = "extract" /\ extractor.n <= Len(extractor.lines)

\* get_prose_content, outside a fence: the line matches ^\s*```
ExtractOpens ==
    /\ Extracting
    /\ ~extractor.in_fence
    /\ OpensFence(extractor.lines[extractor.n])
    /\ extractor' = [extractor EXCEPT !.in_fence = TRUE,
                                      !.fence_char = FenceOf(extractor.lines[extractor.n]),
                                      !.out = Append(@, <<>>),
                                      !.events = Append(@, "open"),
                                      !.n = @ + 1]
    /\ TrackerStep(<<pc, classifier>>)

\* get_prose_content, outside a fence: out.append(line)
ExtractKeeps ==
    /\ Extracting
    /\ ~extractor.in_fence
    /\ ~OpensFence(extractor.lines[extractor.n])
    /\ extractor' = [extractor EXCEPT !.out = Append(@, extractor.lines[extractor.n]),
                                      !.events = Append(@, "none"),
                                      !.n = @ + 1]
    /\ TrackerStep(<<pc, classifier>>)

\* ExtractCloses that appends the closing line instead of an empty line
ExtractClosesKeepingLine ==
    /\ Extracting
    /\ extractor.in_fence
    /\ ClosesFence(extractor.lines[extractor.n], extractor.fence_char)
    /\ extractor' = [extractor EXCEPT !.in_fence = FALSE,
                                      !.fence_char = <<>>,
                                      !.out = Append(@, extractor.lines[extractor.n]),
                                      !.events = Append(@, "close"),
                                      !.n = @ + 1]
    /\ TrackerStep(<<pc, classifier>>)

\* get_prose_content, inside a fence: the line closes it
ExtractCloses ==
    /\ Extracting
    /\ extractor.in_fence
    /\ ClosesFence(extractor.lines[extractor.n], extractor.fence_char)
    /\ extractor' = [extractor EXCEPT !.in_fence = FALSE,
                                      !.fence_char = <<>>,
                                      !.out = Append(@, <<>>),
                                      !.events = Append(@, "close"),
                                      !.n = @ + 1]
    /\ TrackerStep(<<pc, classifier>>)

\* ExtractBlanks that takes a line matching ^\s*``` inside a fence for a second opening
ExtractBlanksNesting ==
    /\ Extracting
    /\ extractor.in_fence
    /\ ~ClosesFence(extractor.lines[extractor.n], extractor.fence_char)
    /\ extractor' = [extractor EXCEPT !.out = Append(@, <<>>),
                                      !.events = Append(@,
                                          IF OpensFence(extractor.lines[extractor.n])
                                          THEN "open" ELSE "none"),
                                      !.n = @ + 1]
    /\ TrackerStep(<<pc, classifier>>)

\* get_prose_content, inside a fence: the line does not close it
ExtractBlanks ==
    /\ Extracting
    /\ extractor.in_fence
    /\ ~ClosesFence(extractor.lines[extractor.n], extractor.fence_char)
    /\ extractor' = [extractor EXCEPT !.out = Append(@, <<>>),
                                      !.events = Append(@, "none"),
                                      !.n = @ + 1]
    /\ TrackerStep(<<pc, classifier>>)

\* return "\n".join(out)
ExtractReturns ==
    /\ pc = "extract"
    /\ extractor.n > Len(extractor.lines)
    /\ extractor' = [extractor EXCEPT !.result = Join(extractor.out)]
    /\ pc' = "classify"
    /\ TrackerStep(<<classifier>>)

Classifying == pc = "classify" /\ classifier.n <= Len(classifier.lines)

\* pos += len(line) + 1
NextPos == classifier.pos + Len(classifier.lines[classifier.n]) + 1

\* prose_offset_set, outside a fence: the line matches ^\s*```
ClassifyOpens ==
    /\ Classifying
    /\ ~classifier.in_fence
    /\ OpensFence(classifier.lines[classifier.n])
    /\ classifier' = [classifier EXCEPT !.in_fence = TRUE,
                                        !.fence = FenceOf(classifier.lines[classifier.n]),
                                        !.pos = NextPos,
                                        !.events = Append(@, "open"),
                                        !.n = @ + 1]
    /\ TrackerStep(<<pc, extractor>>)

\* prose_offset_set, outside a fence: the offsets of the line outside inline backticks
ClassifyProse ==
    /\ Classifying
    /\ ~classifier.in_fence
    /\ ~OpensFence(classifier.lines[classifier.n])
    /\ classifier' =
        [classifier EXCEPT !.prose_offsets =
                               @ \cup {classifier.pos + i :
                                          i \in LineProseOffsets(classifier.lines[classifier.n], 0)},
                           !.pos = NextPos,
                           !.events = Append(@, "none"),
                           !.n = @ + 1]
    /\ TrackerStep(<<pc, extractor>>)

\* prose_offset_set, inside a fence: the line closes it
ClassifyCloses ==
    /\ Classifying
    /\ classifier.in_fence
    /\ ClosesFence(classifier.lines[classifier.n], classifier.fence)
    /\ classifier' = [classifier EXCEPT !.in_fence = FALSE,
                                        !.pos = NextPos,
                                        !.events = Append(@, "close"),
                                        !.n = @ + 1]
    /\ TrackerStep(<<pc, extractor>>)

\* prose_offset_set, inside a fence: the line does not close it
ClassifySkips ==
    /\ Classifying
    /\ classifier.in_fence
    /\ ~ClosesFence(classifier.lines[classifier.n], classifier.fence)
    /\ classifier' = [classifier EXCEPT !.pos = NextPos,
                                        !.events = Append(@, "none"),
                                        !.n = @ + 1]
    /\ TrackerStep(<<pc, extractor>>)

\* return prose_offsets
ClassifyReturns ==
    /\ pc = "classify"
    /\ classifier.n > Len(classifier.lines)
    /\ pc' = "tracked"
    /\ TrackerStep(<<extractor, classifier>>)

NextTrack ==
    \/ ExtractOpens \/ ExtractKeeps \/ ExtractCloses \/ ExtractBlanks \/ ExtractReturns
    \/ ClassifyOpens \/ ClassifyProse \/ ClassifyCloses \/ ClassifySkips \/ ClassifyReturns

SpecTrack == InitTrack /\ [][NextTrack]_vars

(***************************************************************************)
(* The properties of the Fence Tracker.                                    *)
(***************************************************************************)
\* the fence-open events minus the fence-close events among the first k lines
NetOpen(events, k) ==
    Cardinality({j \in 1..k : events[j] = "open"})
    - Cardinality({j \in 1..k : events[j] = "close"})

\* the line that opened the fence line k is met in
OpenedAt(events, k) == CHOOSE j \in 1..(k - 1) :
    events[j] = "open" /\ \A m \in (j + 1)..(k - 1) : events[m] # "open"

\* C15: a line opens a fence exactly when the tracker is outside a fence and the line
\* begins, after leading whitespace, with at least 3 backticks; a line closes the fence
\* exactly when the tracker is inside one and the line begins, after leading whitespace,
\* with a run at least as long as the run that opened it; when the document ends inside a
\* fence, every line from the opening line to the end is fenced code (blanked).
FenceTransitions ==
    pc \in {"extract", "classify", "tracked"} =>
        LET lines == extractor.lines
            events == extractor.events
        IN  /\ extractor.in_fence <=> NetOpen(events, Len(events)) = 1
            /\ \A k \in 1..Len(events) :
                LET inside == NetOpen(events, k - 1) = 1
                IN  /\ events[k] = "open" <=> ~inside /\ LeadingRun(lines[k]) >= 3
                    /\ events[k] = "close" <=>
                        inside /\ LeadingRun(lines[k]) >= LeadingRun(lines[OpenedAt(events, k)])
            /\ pc # "extract" /\ extractor.in_fence =>
                \A k \in OpenedAt(events, Len(lines) + 1)..Len(lines) : extractor.out[k] = <<>>

\* C15 witness: a scan that ended inside a fence opened by a run of 4 or more, having met
\* a line that begins with a run of 3 or more and did not close it
FenceTransitionsWitness ==
    /\ pc = "classify"
    /\ extractor.in_fence
    /\ \E k \in 1..Len(extractor.events) :
        /\ extractor.events[k] = "none"
        /\ NetOpen(extractor.events, k - 1) = 1
        /\ LeadingRun(extractor.lines[k]) >= 3
        /\ extractor.lines[k] # <<>>

Balanced(tracker) ==
    /\ NetOpen(tracker.events, Len(tracker.events)) \in {0, 1}
    /\ tracker.in_fence <=> NetOpen(tracker.events, Len(tracker.events)) = 1
    /\ \A k \in 1..Len(tracker.events) :
        /\ NetOpen(tracker.events, k) \in {0, 1}
        /\ tracker.events[k] = "open" => NetOpen(tracker.events, k - 1) = 0
        /\ NetOpen(tracker.events, k - 1) = 1 /\ LeadingRun(tracker.lines[k]) >= 3 =>
            tracker.events[k] \in {"close", "none"}

\* C16: in every state of a scan, of get_prose_content and of prose_offset_set, the
\* fence-open events minus the fence-close events are 0 or 1; a fence marker met inside a
\* fence closes it or does nothing, so at most one fence is open at the end of the document.
FenceInvariant ==
    pc \in {"extract", "classify", "tracked"} => Balanced(extractor) /\ Balanced(classifier)

\* C16 witness: both scans have opened a fence, closed it at a marker and opened another,
\* which is open at the end of the document
FenceInvariantWitness ==
    /\ pc = "tracked"
    /\ \E i, j, k \in 1..Len(extractor.events) :
        /\ i < j /\ j < k
        /\ extractor.events[i] = "open" /\ extractor.events[j] = "close"
        /\ extractor.events[k] = "open"
    /\ classifier.events = extractor.events
    /\ classifier.in_fence

\* C17: the prose view has as many lines as the document; line i is empty when line i of
\* the document opens a fence, is inside a fence or closes a fence, and is line i of the
\* document otherwise.
ProseExtractor ==
    pc \in {"classify", "tracked"} =>
        LET lines == Split(content)
            view == Split(extractor.result)
        IN  /\ extractor.result = get_prose_content(content)
            /\ Len(view) = Len(lines)
            /\ \A i \in 1..Len(lines) :
                view[i] = IF FenceLabels(lines)[i] \in {"open", "inside", "close"}
                          THEN <<>> ELSE lines[i]

\* C17 witness: a prose view that keeps a non-empty line and blanks a fence-opening line,
\* a non-empty line inside the fence and the fence-closing line
ProseExtractorWitness ==
    /\ pc = "classify"
    /\ \E i \in 1..Len(extractor.lines) :
        extractor.lines[i] # <<>> /\ extractor.events[i] = "none" /\ extractor.out[i] # <<>>
    /\ \E i, j, k \in 1..Len(extractor.lines) :
        /\ i < j /\ j < k
        /\ extractor.events[i] = "open" /\ extractor.events[k] = "close"
        /\ extractor.lines[j] # <<>> /\ extractor.out[j] = <<>>

(***************************************************************************)
(* The scanner and the rewriter on the same document: the audit of a       *)
(* document, its rewrite with the exemption disabled, and the audit of the *)
(* rewritten document.                                                     *)
(***************************************************************************)
PairTokens ==
    { <<STRAIGHT_DOUBLE>>, <<STRAIGHT_APOSTROPHE>>, <<BACKTICK>>, <<NEWLINE>>, <<"a">> }

InitFixAudit == InitOver(DocumentsOver(PairTokens))

\* new_content = fix_prose_quotes(content, skip_avoid_examples=False), after the audit
FixAudited ==
    /\ pc = "audited"
    /\ skip_avoid_examples' = FALSE
    /\ new_content' = fix_prose_quotes(content, FALSE)
    /\ pc' = "rewritten"
    /\ UNCHANGED <<content, again, scan, r>>
    /\ UNCHANGED mainvars
    /\ UNCHANGED toolvars

\* r = audit_file(path) on the next audit run, the text of path being new_content
AuditRewritten ==
    /\ pc = "rewritten"
    /\ scan' = audit_locals(new_content)
    /\ r' = audit_result(new_content, scan')
    /\ pc' = "reaudited"
    /\ UNCHANGED <<content, skip_avoid_examples, new_content, again>>
    /\ UNCHANGED mainvars
    /\ UNCHANGED toolvars

NextFixAudit == Audit \/ FixAudited \/ AuditRewritten

SpecFixAudit == InitFixAudit /\ [][NextFixAudit]_vars

(***************************************************************************)
(* The properties of the scanner and the rewriter together.                *)
(***************************************************************************)
\* the (line, column) of the straight quotes the rewriter replaced
ReplacedPositions ==
    {PositionOf(content, k - 1) : k \in
        {m \in 1..Len(content) : IsStraight(content[m]) /\ new_content[m] # content[m]}}

\* the (line, column) of the straight quotes the scanner reported
ReportedPositions == {r.straight_in_prose[k][1] : k \in 1..Len(r.straight_in_prose)}

\* C18: the straight quotes the scanner reports as straight-in-prose are, position for
\* position, the straight quotes the rewriter replaces with the exemption disabled.
SharedPartition == pc = "rewritten" => ReportedPositions = ReplacedPositions

\* the offsets of a line at which a backtick run starts that no later run of the line,
\* at least as long, closes, and that lies in no closed span
UnmatchedRuns(line) ==
    {o \in RunStarts(line) :
        /\ o \notin SpanOffsets(line, 0, FALSE)
        /\ \A j \in RunStarts(line) :
            j >= o + BacktickRun(line, o) => BacktickRun(line, j) < BacktickRun(line, o)}

\* C19: on a prose line, the straight quotes after a backtick run that nothing closes on
\* the line, and outside the closed spans of the line, are rewritten; and the straight
\* quotes of a prose line that holds no backtick are rewritten whatever the lines before
\* it hold.
UnterminatedSpanReverts ==
    pc = "rewritten" =>
        LET lines == Split(content)
            labels == FenceLabels(lines)
        IN  \A n \in 1..Len(lines) : labels[n] = "prose" =>
                \A i \in 0..(Len(lines[n]) - 1) :
                    /\ IsStraight(lines[n][i + 1])
                    /\ i \notin SpanOffsets(lines[n], 0, FALSE)
                    /\ \/ \E o \in UnmatchedRuns(lines[n]) : o < i
                       \/ RunStarts(lines[n]) = {}
                    => IsFancy(new_content[LineStart(lines, n) + i + 1])

\* C20: the audit of a document rewritten with the exemption disabled reports no
\* straight-in-prose violation.
FixThenAuditConverges == pc = "reaudited" => r.straight_in_prose = <<>>
=============================================================================
